---- MODULE Spec2Model ----
(***************************************************************************)
(* A model of ezspreadsheet.Spreadsheet (src/ezspreadsheet.py): the value  *)
(* codec of _add_row_to_spreadsheet / _load_values, and the session        *)
(* (construct, __enter__, store, load, __exit__) over one target file.     *)
(*                                                                         *)
(* Text is a sequence of one-character strings, so that slicing,           *)
(* splitting and stripping are computed as Python computes them.           *)
(* A Python value is a record [k |-> kind, v |-> payload]:                 *)
(*   "str"  v = text             "int"   v = natural number                *)
(*   "float", "datetime"  v = an opaque token (a native cell scalar)       *)
(*   "none" v = 0                "bool"  v = TRUE / FALSE                  *)
(*   "list", "tuple"  v = sequence of element values                       *)
(*   "dict"     v = sequence of entries [key |-> text, val |-> value],     *)
(*              in insertion order, keys distinct (type(value) == dict)    *)
(*   "dictsub"  the same for an instance of a user subclass of dict        *)
(*              (isinstance(value, dict) but type(value) != dict), whose   *)
(*              str() is dict's                                            *)
(* The workbook library (openpyxl) is outside the repository: a saved and  *)
(* reloaded workbook holds the same cell values under the same labels,    *)
(* except that a cell holding the empty string may read back as an empty  *)
(* cell (None); the model allows both.                                     *)
(***************************************************************************)
EXTENDS Integers, Sequences, FiniteSets, TLC

(* ---- bounds of the input domains ---- *)
MaxStrLen == 3
MaxElems == 2

(* ---- Python text primitives ---- *)

StrV(t) == [k |-> "str", v |-> t]
IntV(n) == [k |-> "int", v |-> n]
NoneV == [k |-> "none", v |-> 0]

DigitChar(d) ==
    CASE d = 0 -> "0" [] d = 1 -> "1" [] d = 2 -> "2" [] d = 3 -> "3"
      [] d = 4 -> "4" [] d = 5 -> "5" [] d = 6 -> "6" [] d = 7 -> "7"
      [] d = 8 -> "8" [] OTHER -> "9"

RECURSIVE Digits(_)
Digits(n) == IF n < 10 THEN <<DigitChar(n)>>
             ELSE Digits(n \div 10) \o <<DigitChar(n % 10)>>

RECURSIVE Concat(_)
Concat(parts) == IF parts = <<>> THEN <<>>
                 ELSE Head(parts) \o Concat(Tail(parts))

RECURSIVE JoinWith(_, _)
JoinWith(parts, sep) ==
    IF parts = <<>> THEN <<>>
    ELSE IF Len(parts) = 1 THEN Head(parts)
    ELSE Head(parts) \o sep \o JoinWith(Tail(parts), sep)

IsScalarKind(k) == k \in {"str", "int", "float", "datetime"}

(* str(x) of a str or int: the text itself, the decimal digits *)
StrOfScalar(x) == IF x.k = "str" THEN x.v ELSE Digits(x.v)

(* repr(x) of a str or int, as it appears inside str(container);          *)
(* the element texts of the model hold no quote and no backslash          *)
ReprOfScalar(x) == IF x.k = "str" THEN <<"'">> \o x.v \o <<"'">> ELSE Digits(x.v)

ReprOfEntry(en) == <<"'">> \o en.key \o <<"'", ":", " ">> \o ReprOfScalar(en.val)

MapSeq(Op(_), s) == [i \in 1..Len(s) |-> Op(s[i])]

(* str(value): Python's textual rendering *)
PyStr(value) ==
    CASE value.k = "str" -> value.v
      [] value.k = "int" -> Digits(value.v)
      [] value.k = "none" -> <<"N", "o", "n", "e">>
      [] value.k = "bool" -> IF value.v THEN <<"T", "r", "u", "e">>
                             ELSE <<"F", "a", "l", "s", "e">>
      [] value.k = "list" ->
            <<"[">> \o JoinWith(MapSeq(ReprOfScalar, value.v), <<",", " ">>) \o <<"]">>
      [] value.k = "tuple" ->
            IF Len(value.v) = 1
            THEN <<"(">> \o ReprOfScalar(value.v[1]) \o <<",", ")">>
            ELSE <<"(">> \o JoinWith(MapSeq(ReprOfScalar, value.v), <<",", " ">>) \o <<")">>
      [] value.k \in {"dict", "dictsub"} ->
            <<"{">> \o JoinWith(MapSeq(ReprOfEntry, value.v), <<",", " ">>) \o <<"}">>
      [] OTHER -> <<"?">>

(* s[1:-2]: from the second character up to, not including, the last two *)
SliceInner(s) == IF Len(s) >= 4 THEN SubSeq(s, 2, Len(s) - 2) ELSE <<>>

(* s.replace("'", "").replace('"', "") *)
StripQuotes(s) == SelectSeq(s, LAMBDA c : c \notin {"'", "\""})

(* s.split(sep): always at least one part *)
RECURSIVE SplitOn(_, _)
SplitOn(s, sep) ==
    IF \A i \in 1..Len(s) : s[i] # sep THEN <<s>>
    ELSE LET i == CHOOSE j \in 1..Len(s) :
                     s[j] = sep /\ \A h \in 1..(j - 1) : s[h] # sep
         IN <<SubSeq(s, 1, i - 1)>> \o SplitOn(SubSeq(s, i + 1, Len(s)), sep)

IsSpace(c) == c \in {" ", "\n", "\t"}

(* s.strip() *)
RECURSIVE LStrip(_)
LStrip(s) == IF s # <<>> /\ IsSpace(Head(s)) THEN LStrip(Tail(s)) ELSE s

RECURSIVE RStrip(_)
RStrip(s) == IF s # <<>> /\ IsSpace(s[Len(s)])
             THEN RStrip(SubSeq(s, 1, Len(s) - 1)) ELSE s

Strip(s) == RStrip(LStrip(s))

StartsWith(s, c) == s # <<>> /\ Head(s) = c

(* ---- the value codec ---- *)

(* One line of the readable rendering of a dict entry: f"- {key}: {value[key]}\n" *)
ReadableEntry(en) == <<"-", " ">> \o en.key \o <<":", " ">> \o StrOfScalar(en.val) \o <<"\n">>

(* One line of the readable rendering of an element: f"- {str(sub_value)}\n" *)
ReadableElem(x) == <<"-", " ">> \o StrOfScalar(x) \o <<"\n">>

(* Iterating a dict subclass yields its keys *)
ReadableKey(en) == <<"-", " ">> \o en.key \o <<"\n">>

(* _add_row_to_spreadsheet, the value written to one cell:               *)
(* [err |-> "none", cell |-> the cell value] or [err |-> "TypeError"]    *)
(* when the readable branch iterates a value that is not iterable.       *)
EncodeValue(value, readable) ==
    IF ~IsScalarKind(value.k)
    THEN IF value.k = "dict" /\ readable
         THEN [err |-> "none", cell |-> StrV(Concat(MapSeq(ReadableEntry, value.v)))]
         ELSE IF readable
         THEN IF value.k \in {"list", "tuple"}
              THEN [err |-> "none", cell |-> StrV(Concat(MapSeq(ReadableElem, value.v)))]
              ELSE IF value.k = "dictsub"
              THEN [err |-> "none", cell |-> StrV(Concat(MapSeq(ReadableKey, value.v)))]
              ELSE [err |-> "TypeError", cell |-> NoneV]
         ELSE [err |-> "none", cell |-> StrV(PyStr(value))]
    ELSE [err |-> "none", cell |-> value]

(* value[1:-2].replace("'", "").replace('"', "").split(',') *)
TokenSegments(s) == SplitOn(StripQuotes(SliceInner(s)), ",")

StripToStr(seg) == StrV(Strip(seg))

(* result[key] = value: a later entry with the same key replaces the value *)
(* and keeps the key's place                                               *)
DictPut(d, key, val) ==
    IF \E i \in 1..Len(d) : d[i].key = key
    THEN [i \in 1..Len(d) |-> IF d[i].key = key THEN [key |-> key, val |-> val] ELSE d[i]]
    ELSE Append(d, [key |-> key, val |-> val])

(* the loop over key_value_pairs: key, value = pair.split(":") raises    *)
(* ValueError unless the pair has exactly one ":"                        *)
RECURSIVE DecodePairs(_, _)
DecodePairs(pairs, result) ==
    IF pairs = <<>> THEN [err |-> "none", val |-> [k |-> "dict", v |-> result]]
    ELSE LET kv == SplitOn(Head(pairs), ":") IN
         IF Len(kv) # 2 THEN [err |-> "ValueError", val |-> NoneV]
         ELSE DecodePairs(Tail(pairs), DictPut(result, Strip(kv[1]), StrV(Strip(kv[2]))))

(* _load_values, the value decoded from one cell:                        *)
(* [err |-> "none", val |-> value] or [err |-> "ValueError"]             *)
DecodeCell(cell) ==
    IF cell.k = "str"
    THEN IF StartsWith(cell.v, "[")
         THEN [err |-> "none",
               val |-> [k |-> "list", v |-> MapSeq(StripToStr, TokenSegments(cell.v))]]
         ELSE IF StartsWith(cell.v, "(")
         THEN [err |-> "none",
               val |-> [k |-> "tuple", v |-> MapSeq(StripToStr, TokenSegments(cell.v))]]
         ELSE IF StartsWith(cell.v, "{")
         THEN DecodePairs(TokenSegments(cell.v), <<>>)
         ELSE [err |-> "none", val |-> cell]
    ELSE [err |-> "none", val |-> cell]

(* Python's == on the values of the model: dicts compare by their items, *)
(* whatever the insertion order and whether or not of a dict subclass    *)
IsMapping(x) == x.k \in {"dict", "dictsub"}

Keys(d) == {d[i].key : i \in 1..Len(d)}

Lookup(d, key) == d[CHOOSE i \in 1..Len(d) : d[i].key = key].val

PyEq(a, b) ==
    IF IsMapping(a) /\ IsMapping(b)
    THEN Keys(a.v) = Keys(b.v) /\ \A key \in Keys(a.v) : Lookup(a.v, key) = Lookup(b.v, key)
    ELSE a.k = b.k /\ a.v = b.v

(* ---- the worksheet ---- *)

(* A worksheet is a function from cell labels to cell values; a label is *)
(* <<column letters as character codes, row>>: <<(65), 2>> is "A2",      *)
(* <<(65, 66), 1>> is "AB1".                                              *)
EmptySheet == <<>>

(* A variant whose two-letter labels are one letter late *)
Label_LateRollover(column_identifier, row) ==
    IF column_identifier = 91 THEN <<(<<65, 65>>), row>>
    ELSE IF column_identifier > 91 THEN <<(<<65, column_identifier - 25>>), row>>
    ELSE <<(<<column_identifier>>), row>>

(* _add_row_to_spreadsheet, the label of the cell at column_identifier *)
Label(column_identifier, row) ==
    IF column_identifier = 91 THEN <<(<<65, 65>>), row>>
    ELSE IF column_identifier > 91 THEN <<(<<65, column_identifier - 26>>), row>>
    ELSE <<(<<column_identifier>>), row>>

(* _add_row_to_spreadsheet: the loop over data from position i on;       *)
(* column_identifier starts at 65 and grows by one per value. A value    *)
(* whose encoding raises ends the loop with the earlier cells written.   *)
(* The loop is given by its result: the values before the first one that *)
(* raises are written, a later value replacing an earlier one under the  *)
(* same label.                                                           *)
FirstRaising(data, i, readable) ==
    LET bad == {j \in i..Len(data) : EncodeValue(data[j], readable).err # "none"}
    IN IF bad = {} THEN Len(data) + 1 ELSE CHOOSE j \in bad : \A h \in bad : j <= h

LastAt(label, i, stop, row) ==
    CHOOSE j \in i..(stop - 1) :
        /\ Label(65 + (j - 1), row) = label
        /\ \A h \in i..(stop - 1) : Label(65 + (h - 1), row) = label => h <= j

CellsWritten(data, i, stop, row, readable) ==
    [label \in {Label(65 + (j - 1), row) : j \in i..(stop - 1)} |->
        EncodeValue(data[LastAt(label, i, stop, row)], readable).cell]

AddCellsUpTo(ws, data, i, stop, row, readable, written) ==
    [ws |-> CellsWritten(data, i, stop, row, readable) @@ ws,
     err |-> IF stop > Len(data) THEN "none" ELSE EncodeValue(data[stop], readable).err,
     written |-> written \cup {Label(65 + (j - 1), row) : j \in i..(stop - 1)}]

AddCells(ws, data, i, row, readable, written) ==
    AddCellsUpTo(ws, data, i, FirstRaising(data, i, readable), row, readable, written)

(* A variant that always takes the str(value) branch of line 212 *)
AddRow_IgnoresReadable(ws, data, row, readable) ==
    AddCells(ws, data, 1, row, FALSE, {})

AddRowToSpreadsheet(ws, data, row, readable) ==
    AddCells(ws, data, 1, row, readable, {})

(* ---- types and instances ---- *)

(* The types of the model: class_attributes is                          *)
(* __init__.__code__.co_varnames[1:], nparams the number of constructor *)
(* parameters after self.                                                *)
TName == <<"n", "a", "m", "e">>
TStatus == <<"s", "t", "a", "t", "u", "s">>
TTitle == <<"t", "i", "t", "l", "e">>

TSelf == <<"s", "e", "l", "f">>

(* cls.__init__.__code__.co_varnames: the parameters of the constructor, *)
(* self first, then the local variables of its body                      *)
CoVarnames(cls) ==
    CASE cls = "Animal" -> <<TSelf, TName, TStatus>>
      [] cls = "Book" -> <<TSelf, TTitle>>
      [] cls = "Herd" -> <<TSelf, TName>>
      [] OTHER -> <<>>

(* __init__, line 115: co_varnames[1::] *)
DeriveAttributes(co_varnames) == IF co_varnames = <<>> THEN <<>> ELSE Tail(co_varnames)

(* The most attributes a bound type may have, line 116 *)
AttributeCeiling == 51

(* A variant that rejects a type with exactly AttributeCeiling attributes *)
InitResult_OffByOne(co_varnames) ==
    IF Len(DeriveAttributes(co_varnames)) >= AttributeCeiling
    THEN [err |-> "ValueError", attrs |-> DeriveAttributes(co_varnames)]
    ELSE [err |-> "none", attrs |-> DeriveAttributes(co_varnames)]

(* __init__, lines 113-117, for a bound type with these co_varnames *)
InitResult(co_varnames) ==
    IF Len(DeriveAttributes(co_varnames)) > AttributeCeiling
    THEN [err |-> "ValueError", attrs |-> DeriveAttributes(co_varnames)]
    ELSE [err |-> "none", attrs |-> DeriveAttributes(co_varnames)]

ClassAttributes(cls) == DeriveAttributes(CoVarnames(cls))

ClassNParams(cls) ==
    CASE cls = "Animal" -> 2
      [] cls = "Book" -> 1
      [] cls = "Herd" -> 1
      [] OTHER -> 0

Classes == {"Animal", "Book"}

(* The types whose instances are iterable (they define __iter__): a Herd *)
(* yields its members                                                    *)
IterableClasses == {"Herd"}

(* An instance: its type and its __dict__ *)
Obj(cls, d) == [k |-> "obj", cls |-> cls, d |-> d]

(* An iterable argument of store: a list of objects *)
ListOf(items) == [k |-> "seq", items |-> items]

(* An instance of an iterable type: items is what iterating it yields *)
IterObj(cls, d, items) == [k |-> "obj", cls |-> cls, d |-> d, items |-> items]

(* isinstance(current_instance, Iterable), line 303 *)
IsIterable(arg) == arg.k = "seq" \/ (arg.k = "obj" /\ arg.cls \in IterableClasses)

IsInstance(arg, cls) == arg.k = "obj" /\ arg.cls = cls

(* _get_values_from_instance: instance.__dict__[attribute] for each      *)
(* attribute, KeyError at the first one the instance lacks               *)
GetValuesFromInstance(class_attributes, instance) ==
    IF \E i \in 1..Len(class_attributes) : class_attributes[i] \notin DOMAIN instance.d
    THEN [err |-> "KeyError", values |-> <<>>]
    ELSE [err |-> "none",
          values |-> [i \in 1..Len(class_attributes) |-> instance.d[class_attributes[i]]]]

(* ---- store ---- *)

(* The running state of one store call: the worksheet, current_row, the  *)
(* error raised (if any), and what the call has done so far: the labels  *)
(* it wrote, the instances whose row it completed, and how many          *)
(* instances it read the attributes of.                                  *)
StoreStart(ws) ==
    [ws |-> ws, row |-> 1, err |-> "none", written |-> {}, stored |-> <<>>, nread |-> 0]

(* A variant that never advances current_row *)
StoreRowDone_NoAdvance(st, x, r) ==
    IF r.err # "none"
    THEN [st EXCEPT !.ws = r.ws, !.err = r.err, !.nread = @ + 1,
                    !.written = @ \cup r.written]
    ELSE [st EXCEPT !.ws = r.ws, !.nread = @ + 1,
                    !.written = @ \cup r.written, !.stored = Append(@, x)]

(* store, lines 308-309 and 315-316: the row of x was written up to r;   *)
(* if complete, current_row += 1                                         *)
StoreRowDone(st, x, r) ==
    IF r.err # "none"
    THEN [st EXCEPT !.ws = r.ws, !.err = r.err, !.nread = @ + 1,
                    !.written = @ \cup r.written]
    ELSE [st EXCEPT !.ws = r.ws, !.row = @ + 1, !.nread = @ + 1,
                    !.written = @ \cup r.written, !.stored = Append(@, x)]

StoreValues(st, x, gv, readable) ==
    IF gv.err # "none" THEN [st EXCEPT !.err = gv.err, !.nread = @ + 1]
    ELSE StoreRowDone(st, x, AddRowToSpreadsheet(st.ws, gv.values, st.row, readable))

(* A variant without the isinstance check *)
StoreInstance_NoCheck(st, x, readable, cls, attrs) ==
    StoreValues(st, x, GetValuesFromInstance(attrs, x), readable)

(* store, lines 305-309 and 310-316: the type check, then the attribute  *)
(* values, then the row                                                  *)
StoreInstance(st, x, readable, cls, attrs) ==
    IF ~IsInstance(x, cls) THEN [st EXCEPT !.err = "ValueError"]
    ELSE StoreValues(st, x, GetValuesFromInstance(attrs, x), readable)

(* store, line 304: for sub_instance in current_instance *)
RECURSIVE StoreSubInstances(_, _, _, _, _)
StoreSubInstances(st, items, readable, cls, attrs) ==
    IF items = <<>> \/ st.err # "none" THEN st
    ELSE StoreSubInstances(StoreInstance(st, Head(items), readable, cls, attrs),
                           Tail(items), readable, cls, attrs)

(* store, line 301: for current_instance in instances *)
RECURSIVE StoreInstances(_, _, _, _, _)
StoreInstances(st, instances, readable, cls, attrs) ==
    IF instances = <<>> \/ st.err # "none" THEN st
    ELSE LET current_instance == Head(instances)
             next == IF IsIterable(current_instance)
                     THEN StoreSubInstances(st, current_instance.items, readable, cls, attrs)
                     ELSE StoreInstance(st, current_instance, readable, cls, attrs)
         IN StoreInstances(next, Tail(instances), readable, cls, attrs)

HeaderRow(attrs) == [i \in 1..Len(attrs) |-> StrV(attrs[i])]

(* A variant that goes on after the last row the worksheet holds *)
StoreRun_Appends(ws, instances, readable, cls, attrs) ==
    LET h == AddRowToSpreadsheet(ws, HeaderRow(attrs), 1, FALSE)
        rows == {l[2] : l \in DOMAIN ws} \cup {1}
        st == [StoreStart(h.ws) EXCEPT !.row = 1 + CHOOSE r \in rows : \A q \in rows : q <= r,
                                       !.written = h.written]
    IN StoreInstances(st, instances, readable, cls, attrs)

(* store, lines 292-316 on a session bound to cls: the heading at row 1, *)
(* then the instances from row 2 on                                      *)
StoreRun(ws, instances, readable, cls, attrs) ==
    LET h == AddRowToSpreadsheet(ws, HeaderRow(attrs), 1, FALSE)
        st == [StoreStart(h.ws) EXCEPT !.row = 2, !.written = h.written]
    IN StoreInstances(st, instances, readable, cls, attrs)

(* The arguments of a store call in flattened order *)
RECURSIVE Flatten(_)
Flatten(instances) ==
    IF instances = <<>> THEN <<>>
    ELSE (IF IsIterable(Head(instances)) THEN Head(instances).items ELSE <<Head(instances)>>)
         \o Flatten(Tail(instances))

(* ---- load ---- *)

(* The workbook library's column letters of the j-th column, 1 <= j <= 52 *)
(* (A..Z, AA..AZ), and the column a label's letters name                  *)
LibColumnLetters(j) == IF j <= 26 THEN <<64 + j>> ELSE <<65, 64 + (j - 26)>>

ColumnIndex(letters) == IF Len(letters) = 1 THEN letters[1] - 64 ELSE 26 + (letters[2] - 64)

SetMax(S) == CHOOSE m \in S : \A x \in S : x <= m

MaxRow(ws) == IF DOMAIN ws = {} THEN 0 ELSE SetMax({l[2] : l \in DOMAIN ws})

MaxColumn(ws) == IF DOMAIN ws = {} THEN 0 ELSE SetMax({ColumnIndex(l[1]) : l \in DOMAIN ws})

(* worksheet.values: every row from 1 to the last, every column from 1 to *)
(* the last, None where no cell was written                               *)
CellAt(ws, row, j) ==
    LET label == <<LibColumnLetters(j), row>>
    IN IF label \in DOMAIN ws THEN ws[label] ELSE NoneV

SheetRow(ws, row) == [j \in 1..MaxColumn(ws) |-> CellAt(ws, row, j)]

(* load_workbook(name): the worksheets a saved worksheet can read back as *)
EmptyToNone(cell) == IF cell = StrV(<<>>) THEN NoneV ELSE cell

ReloadedSheets(ws) == {ws, [label \in DOMAIN ws |-> EmptyToNone(ws[label])]}

(* _load_values on one row: the cells decoded in column order, the error *)
(* of the first cell whose decoding raises                               *)
RowOfDecoded(dec) ==
    IF \E j \in 1..Len(dec) : dec[j].err # "none"
    THEN [err |-> "ValueError", values |-> <<>>]
    ELSE [err |-> "none", values |-> [j \in 1..Len(dec) |-> dec[j].val]]

DecodeRow(values) == RowOfDecoded([j \in 1..Len(values) |-> DecodeCell(values[j])])

(* namedtuple(name, header): the field names must be distinct strings *)
ValidHeader(header) ==
    /\ \A j \in 1..Len(header) : header[j].k = "str"
    /\ \A i, j \in 1..Len(header) : header[i] = header[j] => i = j

(* namedtuple(name, header): the type name must be an identifier *)
ValidName(name) == name # <<>> /\ Head(name) \notin {"0", "1", "2", "3", "4", "5", "6", "7", "8", "9"}

(* The constructor load returns: the bound type (line 418) or the record *)
(* type namedtuple(name, header) of line 424                             *)
NoCtor == [kind |-> "none", name |-> <<>>, fields |-> <<>>]

BoundCtor(cls) == [kind |-> "class", name |-> cls, fields |-> <<>>]

RecordCtor(name, header) ==
    [kind |-> "namedtuple", name |-> name,
     fields |-> [j \in 1..Len(header) |-> header[j].v]]

(* A variant that passes the row's values in reverse order *)
RowRecord_Reversed(dr, nfields) ==
    IF dr.err # "none" THEN [err |-> dr.err, values |-> <<>>]
    ELSE IF Len(dr.values) # nfields THEN [err |-> "TypeError", values |-> <<>>]
    ELSE [dr EXCEPT !.values = [j \in 1..Len(dr.values) |-> dr.values[Len(dr.values) + 1 - j]]]

(* load, lines 419-420 and 426-427: one instance per remaining row; with *)
(* a bound type the constructor takes exactly nparams positional values  *)
RowRecord(dr, nfields) ==
    IF dr.err # "none" THEN [err |-> dr.err, values |-> <<>>]
    ELSE IF Len(dr.values) # nfields THEN [err |-> "TypeError", values |-> <<>>]
    ELSE dr

AddRecord(acc, rec) ==
    IF rec.err # "none" THEN [err |-> rec.err, recs |-> <<>>, ctor |-> NoCtor]
    ELSE [acc EXCEPT !.recs = Append(@, rec.values)]

RECURSIVE LoadRows(_, _, _, _)
LoadRows(ws, row, nfields, acc) ==
    IF row > MaxRow(ws) \/ acc.err # "none" THEN acc
    ELSE LoadRows(ws, row + 1, nfields,
                  AddRecord(acc, RowRecord(DecodeRow(SheetRow(ws, row)), nfields)))

(* A variant that does not skip the heading row *)
LoadBody_KeepsHeader(ws, cls, hd, name) ==
    IF hd.err # "none" THEN [err |-> hd.err, recs |-> <<>>, ctor |-> NoCtor]
    ELSE IF cls = "none" /\ ~(ValidHeader(hd.values) /\ ValidName(name))
    THEN [err |-> "ValueError", recs |-> <<>>, ctor |-> NoCtor]
    ELSE LoadRows(ws, 1, IF cls = "none" THEN Len(hd.values) ELSE ClassNParams(cls),
                  [err |-> "none", recs |-> <<>>,
                   ctor |-> IF cls = "none" THEN RecordCtor(name, hd.values)
                            ELSE BoundCtor(cls)])

(* load, lines 415-427 once the heading row hd is read: with a bound    *)
(* type the heading is skipped, without one it names the fields         *)
LoadBody(ws, cls, hd, name) ==
    IF hd.err # "none" THEN [err |-> hd.err, recs |-> <<>>, ctor |-> NoCtor]
    ELSE IF cls = "none" /\ ~(ValidHeader(hd.values) /\ ValidName(name))
    THEN [err |-> "ValueError", recs |-> <<>>, ctor |-> NoCtor]
    ELSE LoadRows(ws, 2, IF cls = "none" THEN Len(hd.values) ELSE ClassNParams(cls),
                  [err |-> "none", recs |-> <<>>,
                   ctor |-> IF cls = "none" THEN RecordCtor(name, hd.values)
                            ELSE BoundCtor(cls)])

(* load, lines 411-430 on the worksheet read from the file: the first    *)
(* row is the heading, every later row one record (its decoded values in *)
(* column order)                                                         *)
LoadRun(ws, cls, name) ==
    IF MaxRow(ws) = 0 THEN [err |-> "StopIteration", recs |-> <<>>, ctor |-> NoCtor]
    ELSE LoadBody(ws, cls, DecodeRow(SheetRow(ws, 1)), name)

(* ---- the inputs of the model ---- *)

MaxItems == 3
MaxSessions == 2
MaxLocks == 2

(* The instances the callers of the model hold *)
Gecko == Obj("Animal", (TName :> StrV(<<"G">>)) @@
                       (TStatus :> [k |-> "list", v |-> <<StrV(<<"a">>), StrV(<<"b">>)>>]))

Eagle == Obj("Animal", (TName :> StrV(<<"E">>)) @@ (TStatus :> [k |-> "dict", v |-> <<>>]))

Novel == Obj("Book", (TTitle :> StrV(<<"N">>)))

Objects == {Gecko, Eagle, Novel}

(* The names the callers pass to load; the second is no identifier *)
Names == {<<"z", "o", "o">>, <<"9">>}

(* The sequences over S of length at most n *)
SeqsUpTo(S, n) == UNION {[1..m -> S] : m \in 0..n}

(* The number of objects a store call passes (a call without objects, or *)
(* with an empty list, counts one)                                       *)
RECURSIVE Weight(_)
Weight(instances) ==
    IF instances = <<>> THEN 0
    ELSE (IF IsIterable(Head(instances)) /\ Head(instances).items # <<>>
          THEN Len(Head(instances).items) ELSE 1) + Weight(Tail(instances))

CallWeight(instances) == IF instances = <<>> THEN 1 ELSE Weight(instances)

(* The ways the model passes the objects f to store: one argument each,  *)
(* one list of all, an object then a list, a list then an object         *)
CallShapes(f) ==
    {f, <<ListOf(f)>>} \cup
    (IF Len(f) >= 2
     THEN {<<Head(f), ListOf(Tail(f))>>, <<ListOf(SubSeq(f, 1, Len(f) - 1)), f[Len(f)]>>}
     ELSE {})

(* The store calls of the model: at most MaxItems objects *)
StoreCalls == UNION {CallShapes(f) : f \in SeqsUpTo(Objects, MaxItems)}

(* ---- the state ---- *)

VARIABLES
    file,     \* the target file: [exists, ws], ws the saved worksheet
    sess,     \* the session object: status, class_identifier, class_attributes,
              \* worksheet, the error pending in the scope's body; passed counts
              \* the objects the run has passed to store so far (it bounds the
              \* model and is no field of the program)
    raised,   \* the error that left the scope of the last session ("none" if none)
    nsess,    \* the scopes of the run so far: sessions constructed, and
              \* closed sessions entered again
    last,     \* the last operation and what it did
    prov,     \* where the session's worksheet and the file's contents come from
    cv,       \* the codec scenario: one value stored to a cell and loaded back
    sh        \* the shape scenario: one type bound to a session, one row of
              \* values written by _add_row_to_spreadsheet, or one session
              \* entered on a file name; in the argument scenario, the
              \* arguments of the store call

vars == <<file, sess, raised, nsess, last, prov, cv, sh>>

NoLast == [op |-> "none", err |-> "none", items |-> <<>>, readable |-> FALSE,
           stored |-> <<>>, written |-> {}, nread |-> 0, recs |-> <<>>,
           name |-> <<>>, ctor |-> NoCtor]

Unknown == [kind |-> "other", items |-> <<>>, readable |-> FALSE, cls |-> "none"]

NoSession == [status |-> "none", cls |-> "none", attrs |-> <<>>, ws |-> EmptySheet,
              exc |-> "none", passed |-> 0]

CvIdle == [pc |-> "idle", value |-> NoneV, readable |-> FALSE, ws |-> EmptySheet,
           err |-> "none", loaded |-> NoneV]

ShIdle == [pc |-> "idle", kind |-> "none", nparams |-> 0, nlocals |-> 0,
           co_varnames |-> <<>>, attrs |-> <<>>, again |-> <<>>, err |-> "none",
           session |-> FALSE, data |-> <<>>, row |-> 0, ws |-> EmptySheet,
           file_name |-> <<>>, cls |-> "none", variant |-> "none",
           args |-> <<>>]

Init ==
    /\ file = [exists |-> FALSE, ws |-> EmptySheet]
    /\ sess = NoSession
    /\ raised = "none"
    /\ nsess = 0
    /\ last = NoLast
    /\ prov = [ws |-> Unknown, file |-> Unknown]
    /\ cv = CvIdle
    /\ sh = ShIdle

(* What __init__ leaves behind: the session object, or none when it raises *)
Constructed(cls, r) ==
    /\ sess' = IF r.err # "none" THEN [NoSession EXCEPT !.passed = sess.passed]
               ELSE [NoSession EXCEPT !.status = "unopened", !.cls = cls,
                                      !.attrs = r.attrs, !.passed = sess.passed]
    /\ raised' = r.err
    /\ last' = [NoLast EXCEPT !.op = "construct", !.err = r.err]

(* Spreadsheet(file_name, class_identifier), lines 101-117 *)
Construct ==
    /\ sess.status \in {"none", "closed"}
    /\ nsess < MaxSessions
    /\ \E cls \in Classes \cup {"none"} : Constructed(cls, InitResult(CoVarnames(cls)))
    /\ nsess' = nsess + 1
    /\ prov' = [prov EXCEPT !.ws = Unknown]
    /\ UNCHANGED <<file, cv, sh>>

(* __enter__, lines 128-131: a new, empty workbook. Nothing keeps a     *)
(* session object whose scope has ended from being entered again.       *)
Enter ==
    /\ sess.status \in {"unopened", "closed"}
    /\ sess.status = "closed" => nsess < MaxSessions
    /\ nsess' = IF sess.status = "closed" THEN nsess + 1 ELSE nsess
    /\ sess' = [sess EXCEPT !.status = "open", !.ws = EmptySheet]
    /\ raised' = "none"
    /\ last' = [NoLast EXCEPT !.op = "enter"]
    /\ prov' = [prov EXCEPT !.ws = [Unknown EXCEPT !.kind = "fresh"]]
    /\ UNCHANGED <<file, cv, sh>>

(* What a store call that ran to r leaves behind; flat is its arguments *)
(* in flattened order                                                   *)
StoreEffect(r, flat, readable, weight) ==
    /\ sess' = [sess EXCEPT !.ws = r.ws, !.exc = r.err, !.passed = @ + weight]
    /\ last' = [NoLast EXCEPT !.op = "store", !.err = r.err,
                              !.items = flat,
                              !.readable = readable, !.stored = r.stored,
                              !.written = r.written, !.nread = r.nread]
    /\ prov' = [prov EXCEPT !.ws =
                   IF prov.ws.kind = "fresh" /\ r.err \in {"none", "ValueError"}
                   THEN [kind |-> IF r.err = "none" THEN "one" ELSE "partial",
                         items |-> r.stored, readable |-> readable, cls |-> sess.cls]
                   ELSE Unknown]

(* store(instances..., readable), lines 292-316, in the scope's body. On a *)
(* session with no bound type line 292 raises AttributeError.              *)
StoreCall(ws, instances, readable, cls, attrs) ==
    IF cls = "none" THEN [StoreStart(ws) EXCEPT !.err = "AttributeError"]
    ELSE StoreRun(ws, instances, readable, cls, attrs)

StoreResult(r, instances, readable) ==
    StoreEffect(r, Flatten(instances), readable, CallWeight(instances))

Store ==
    /\ sess.status = "open"
    /\ sess.exc = "none"
    /\ \E instances \in StoreCalls, readable \in BOOLEAN :
          /\ sess.passed + CallWeight(instances) <= MaxItems
          /\ StoreResult(StoreCall(sess.ws, instances, readable, sess.cls, sess.attrs),
                         instances, readable)
    /\ UNCHANGED <<file, raised, nsess, cv, sh>>

LoadEffect(r, ws, name) ==
    /\ sess' = [sess EXCEPT !.ws = ws, !.exc = r.err]
    /\ last' = [NoLast EXCEPT !.op = "load", !.err = r.err, !.recs = r.recs,
                              !.name = name, !.ctor = r.ctor]

(* load(name), lines 408-430, in the scope's body: the workbook is read  *)
(* from the file and replaces the session's                              *)
Load ==
    /\ sess.status = "open"
    /\ sess.exc = "none"
    /\ IF ~file.exists
       THEN /\ sess' = [sess EXCEPT !.exc = "FileNotFoundError"]
            /\ last' = [NoLast EXCEPT !.op = "load", !.err = "FileNotFoundError"]
       ELSE \E ws \in ReloadedSheets(file.ws), name \in Names :
               LoadEffect(LoadRun(ws, sess.cls, name), ws, name)
    /\ prov' = [prov EXCEPT !.ws = Unknown]
    /\ UNCHANGED <<file, raised, nsess, cv, sh>>

(* The scope's body catches the error of a call and goes on *)
Handle ==
    /\ sess.status = "open"
    /\ sess.exc # "none"
    /\ sess' = [sess EXCEPT !.exc = "none"]
    /\ last' = [NoLast EXCEPT !.op = "handle"]
    /\ UNCHANGED <<file, raised, nsess, prov, cv, sh>>

(* __exit__ with no error, lines 142-149: save; if the file is locked,   *)
(* prompt and save once more. locked is the number of save attempts that *)
(* find the file locked.                                                 *)
ExitClean ==
    /\ sess.status = "open"
    /\ sess.exc = "none"
    /\ \E locked \in 0..MaxLocks :
          IF locked <= 1
          THEN /\ file' = [exists |-> TRUE, ws |-> sess.ws]
               /\ prov' = [prov EXCEPT !.file = IF prov.ws.kind = "partial"
                                                THEN Unknown ELSE prov.ws]
               /\ raised' = "none"
               /\ last' = [NoLast EXCEPT !.op = "exit"]
          ELSE /\ raised' = "PermissionError"
               /\ last' = [NoLast EXCEPT !.op = "exit", !.err = "PermissionError"]
               /\ UNCHANGED <<file, prov>>
    /\ sess' = [sess EXCEPT !.status = "closed"]
    /\ UNCHANGED <<nsess, cv, sh>>

(* A variant of __exit__ with an error that returns True *)
ExitError_Suppresses ==
    /\ sess.status = "open"
    /\ sess.exc # "none"
    /\ raised' = "none"
    /\ sess' = [sess EXCEPT !.status = "closed"]
    /\ last' = [NoLast EXCEPT !.op = "exit", !.err = sess.exc]
    /\ UNCHANGED <<file, nsess, prov, cv, sh>>

(* A variant of __exit__ with an error that saves the workbook *)
ExitError_Saves ==
    /\ sess.status = "open"
    /\ sess.exc # "none"
    /\ raised' = sess.exc
    /\ file' = [exists |-> TRUE, ws |-> sess.ws]
    /\ sess' = [sess EXCEPT !.status = "closed"]
    /\ last' = [NoLast EXCEPT !.op = "exit", !.err = sess.exc]
    /\ UNCHANGED <<nsess, prov, cv, sh>>

(* __exit__ with an error, lines 151-153: returns False, so the error    *)
(* goes on to the caller of the scope                                    *)
ExitError ==
    /\ sess.status = "open"
    /\ sess.exc # "none"
    /\ raised' = sess.exc
    /\ sess' = [sess EXCEPT !.status = "closed"]
    /\ last' = [NoLast EXCEPT !.op = "exit", !.err = sess.exc]
    /\ UNCHANGED <<file, nsess, prov, cv, sh>>

Next == Construct \/ Enter \/ Store \/ Load \/ Handle \/ ExitClean \/ ExitError

Spec == Init /\ [][Next]_vars

(* ---- the codec scenario: one attribute value stored and loaded back ---- *)

StrAlphabet == {"[", "(", "{", "a", ":", ","}

ScalarStrings == {StrV(t) : t \in SeqsUpTo(StrAlphabet, MaxStrLen)}

Elems == {StrV(<<"a">>), StrV(<<"b", "c">>), IntV(7), IntV(21)}

DictKeys == {<<"k">>, <<"a", "g", "e">>, <<"n">>}

DistinctKeys(d) == \A i, j \in 1..Len(d) : d[i].key = d[j].key => i = j

EntrySeqs == {d \in SeqsUpTo([key : DictKeys, val : Elems], MaxElems) : DistinctKeys(d)}

ContainerKinds == {"list", "tuple", "dict", "dictsub"}

CodecValues ==
    ScalarStrings
    \cup {IntV(7), IntV(21), NoneV, [k |-> "bool", v |-> TRUE],
          [k |-> "float", v |-> 1], [k |-> "datetime", v |-> 1]}
    \cup {[k |-> kind, v |-> e] : kind \in {"list", "tuple"}, e \in SeqsUpTo(Elems, MaxElems)}
    \cup {[k |-> kind, v |-> d] : kind \in {"dict", "dictsub"}, d \in EntrySeqs}

InitCodec ==
    /\ file = [exists |-> FALSE, ws |-> EmptySheet]
    /\ sess = NoSession
    /\ raised = "none"
    /\ nsess = 0
    /\ last = NoLast
    /\ prov = [ws |-> Unknown, file |-> Unknown]
    /\ \E value \in CodecValues, readable \in BOOLEAN :
          cv = [CvIdle EXCEPT !.pc = "start", !.value = value, !.readable = readable]
    /\ sh = ShIdle

CodecStored(r) ==
    cv' = [cv EXCEPT !.pc = IF r.err = "none" THEN "stored" ELSE "failed",
                     !.ws = r.ws, !.err = r.err]

(* store of an instance whose one attribute holds the value: its row is *)
(* row 2 of a new worksheet                                             *)
CodecStore ==
    /\ cv.pc = "start"
    /\ CodecStored(AddRowToSpreadsheet(EmptySheet, <<cv.value>>, 2, cv.readable))
    /\ UNCHANGED <<file, sess, raised, nsess, last, prov, sh>>

CodecLoaded(dr) ==
    cv' = [cv EXCEPT !.pc = "loaded", !.err = dr.err,
                     !.loaded = IF dr.err = "none" THEN dr.values[1] ELSE NoneV]

(* load of that row from the saved worksheet *)
CodecLoad ==
    /\ cv.pc = "stored"
    /\ \E ws \in ReloadedSheets(cv.ws) : CodecLoaded(DecodeRow(SheetRow(ws, 2)))
    /\ UNCHANGED <<file, sess, raised, nsess, last, prov, sh>>

NextCodec == CodecStore \/ CodecLoad

CodecSpec == InitCodec /\ [][NextCodec]_vars

(* The cell the codec scenario wrote *)
CvCell == CellAt(cv.ws, 2, 1)

(* ---- the shape scenario: a type bound to a session, a row written ---- *)

MaxParams == 52
MaxLocals == 2
MaxWidth == 52

(* The i-th name of a family: the letter, then the digits of i *)
IndexedName(letter, i) == <<letter>> \o Digits(i)

(* The declared parameters (after self) and the local variables of the   *)
(* constructor of a type with nparams parameters and nlocals locals      *)
DeclaredParams(nparams) == [i \in 1..nparams |-> IndexedName("p", i)]

BodyLocals(nlocals) == [i \in 1..nlocals |-> IndexedName("v", i)]

(* Its co_varnames: the arguments in declaration order, then the locals *)
TypeVarnames(nparams, nlocals) == <<TSelf>> \o DeclaredParams(nparams) \o BodyLocals(nlocals)

(* A row of width distinct values *)
RowData(width) == [i \in 1..width |-> IntV(i)]

(* The file names the callers pass: with each extension, and with none *)
Paths == {<<"a", ".", "x", "l", "s", "x">>, <<"a", ".", "c", "s", "v">>, <<"a">>}

(* str.endswith *)
EndsWith(s, suffix) ==
    Len(s) >= Len(suffix) /\ SubSeq(s, Len(s) - Len(suffix) + 1, Len(s)) = suffix

(* __init__, lines 102 and 109-111: self.file_name is the name as given; *)
(* the extension is appended to the local name only                      *)
SessionFileName(file_name) ==
    LET local == IF ~EndsWith(file_name, <<".", "x", "l", "s", "x">>)
                 THEN file_name \o <<".", "x", "l", "s", "x">> ELSE file_name
    IN file_name

(* __enter__, lines 128-129: the backing resource of every session is a  *)
(* new workbook of the spreadsheet library, whatever its file name and   *)
(* bound type                                                            *)
BackingVariant(file_name, cls) == "workbook"

InitShape ==
    /\ file = [exists |-> FALSE, ws |-> EmptySheet]
    /\ sess = NoSession
    /\ raised = "none"
    /\ nsess = 0
    /\ last = NoLast
    /\ prov = [ws |-> Unknown, file |-> Unknown]
    /\ cv = CvIdle
    /\ \/ \E nparams \in 0..MaxParams, nlocals \in 0..MaxLocals :
             sh = [ShIdle EXCEPT !.pc = "start", !.kind = "type",
                                 !.nparams = nparams, !.nlocals = nlocals,
                                 !.co_varnames = TypeVarnames(nparams, nlocals)]
       \/ \E width \in 0..MaxWidth, row \in 1..2 :
             sh = [ShIdle EXCEPT !.pc = "start", !.kind = "row",
                                 !.data = RowData(width), !.row = row]
       \/ \E file_name \in Paths, cls \in Classes \cup {"none"} :
             sh = [ShIdle EXCEPT !.pc = "start", !.kind = "path",
                                 !.file_name = file_name, !.cls = cls]

ShapeBound(r) ==
    sh' = [sh EXCEPT !.pc = IF r.err = "none" THEN "bound" ELSE "rejected",
                     !.attrs = r.attrs, !.err = r.err, !.session = (r.err = "none")]

(* Spreadsheet(file_name, T) for the type of the scenario, lines 113-117 *)
ShapeConstruct ==
    /\ sh.pc = "start" /\ sh.kind = "type"
    /\ ShapeBound(InitResult(sh.co_varnames))
    /\ UNCHANGED <<file, sess, raised, nsess, last, prov, cv>>

(* A second session bound to the same type *)
ShapeConstructAgain ==
    /\ sh.pc = "bound"
    /\ sh' = [sh EXCEPT !.pc = "twice", !.again = InitResult(sh.co_varnames).attrs]
    /\ UNCHANGED <<file, sess, raised, nsess, last, prov, cv>>

ShapeRowWritten(r) == sh' = [sh EXCEPT !.pc = "written", !.ws = r.ws, !.err = r.err]

(* _add_row_to_spreadsheet(data, row) on a new worksheet *)
ShapeAddRow ==
    /\ sh.pc = "start" /\ sh.kind = "row"
    /\ ShapeRowWritten(AddRowToSpreadsheet(EmptySheet, sh.data, sh.row, FALSE))
    /\ UNCHANGED <<file, sess, raised, nsess, last, prov, cv>>

(* with Spreadsheet(file_name, cls) as sheet, lines 101-131: the session *)
(* the scope's body gets                                                *)
ShapeEnter ==
    /\ sh.pc = "start" /\ sh.kind = "path"
    /\ sh' = [sh EXCEPT !.pc = "entered", !.session = TRUE,
                        !.file_name = SessionFileName(sh.file_name),
                        !.attrs = InitResult(CoVarnames(sh.cls)).attrs,
                        !.variant = BackingVariant(sh.file_name, sh.cls)]
    /\ UNCHANGED <<file, sess, raised, nsess, last, prov, cv>>

NextShape == ShapeConstruct \/ ShapeConstructAgain \/ ShapeAddRow \/ ShapeEnter

ShapeSpec == InitShape /\ [][NextShape]_vars

(* ---- the argument scenario: one store call on a newly entered session ---- *)

MaxArgs == 2

(* An Animal whose __dict__ lacks an attribute, one whose attribute is  *)
(* None, a Herd without members and a Herd of one Animal                *)
Stub == Obj("Animal", (TName :> StrV(<<"S">>)))

Mute == Obj("Animal", (TName :> StrV(<<"M">>)) @@ (TStatus :> NoneV))

EmptyHerd == IterObj("Herd", (TName :> StrV(<<"H">>)), <<>>)

GeckoHerd == IterObj("Herd", (TName :> StrV(<<"K">>)), <<Gecko>>)

ArgObjects == {Gecko, Novel, Stub, Mute, EmptyHerd, GeckoHerd}

ArgClasses == {"Animal", "Herd"}

ArgCalls == UNION {CallShapes(f) : f \in SeqsUpTo(ArgObjects, MaxArgs)}

(* with Spreadsheet(file_name, cls) as sheet: the session as the body of *)
(* the scope gets it                                                     *)
InitArgs ==
    /\ file = [exists |-> FALSE, ws |-> EmptySheet]
    /\ \E cls \in ArgClasses :
          sess = [NoSession EXCEPT !.status = "open", !.cls = cls,
                                   !.attrs = InitResult(CoVarnames(cls)).attrs]
    /\ raised = "none"
    /\ nsess = 1
    /\ last = [NoLast EXCEPT !.op = "enter"]
    /\ prov = [ws |-> [Unknown EXCEPT !.kind = "fresh"], file |-> Unknown]
    /\ cv = CvIdle
    /\ sh = [ShIdle EXCEPT !.pc = "start", !.kind = "call"]

(* store(instances..., readable), lines 292-316, as the first call of   *)
(* the scope                                                            *)
ArgStore ==
    /\ sh.pc = "start" /\ sh.kind = "call"
    /\ \E instances \in ArgCalls, readable \in BOOLEAN :
          /\ StoreResult(StoreCall(sess.ws, instances, readable, sess.cls, sess.attrs),
                         instances, readable)
          /\ sh' = [sh EXCEPT !.pc = "called", !.args = instances]
    /\ UNCHANGED <<file, raised, nsess, cv>>

NextArgs == ArgStore

ArgSpec == InitArgs /\ [][NextArgs]_vars

(* ---- properties of the codec, checked under CodecSpec ---- *)

CvDone == cv.pc \in {"failed", "loaded"}

(* C2: scalar round-trip. An attribute value that is a native scalar     *)
(* (string, integer, float, date-time) loads back identical to the       *)
(* original, strings starting with "[", "(" or "{" included. (The empty  *)
(* string, which the workbook library may read back as None, is left     *)
(* out.)                                                                 *)
C2_ScalarRoundTrip ==
    (CvDone /\ IsScalarKind(cv.value.k) /\ cv.value # StrV(<<>>)) =>
        (cv.pc = "loaded" /\ cv.err = "none" /\ cv.loaded = cv.value)

(* Equality up to the list / tuple distinction *)
SameContainer(a, b) ==
    IF IsMapping(b) THEN IsMapping(a) /\ PyEq(a, b)
    ELSE a.k \in {"list", "tuple"} /\ a.v = b.v

(* C3: container round-trip with readable = False. A list, tuple or      *)
(* mapping attribute value (empty ones, ones of integers, ones whose     *)
(* last element is not a quoted string included) loads back equal to the *)
(* original: the same elements in the same order.                        *)
C3_ContainerRoundTrip ==
    (CvDone /\ ~cv.readable /\ cv.value.k \in {"list", "tuple", "dict"}) =>
        (cv.pc = "loaded" /\ cv.err = "none" /\ SameContainer(cv.loaded, cv.value))

(* C4: decode selects the container kind from the first character of a   *)
(* string cell only: "[" gives a list, "(" a tuple, "{" a mapping, any   *)
(* other string is returned unchanged; so a tuple stored with            *)
(* readable = False loads as a tuple and a list as a list.               *)
C4_KindByFirstChar ==
    (cv.pc = "loaded" /\ CvCell.k = "str" /\ CvCell.v # <<>>) =>
        /\ cv.err = "none"
        /\ CASE Head(CvCell.v) = "[" -> cv.loaded.k = "list"
              [] Head(CvCell.v) = "(" -> cv.loaded.k = "tuple"
              [] Head(CvCell.v) = "{" -> cv.loaded.k = "dict"
              [] OTHER -> cv.loaded = CvCell
        /\ (~cv.readable /\ cv.value.k \in {"list", "tuple"}) => cv.loaded.k = cv.value.k

(* C5: a mapping with string keys and scalar values stored with          *)
(* readable = False decodes to a mapping with exactly the original keys, *)
(* each value the complete text of the original value, trimmed, whatever *)
(* the position of the entry.                                            *)
C5_MappingValuesComplete ==
    (CvDone /\ ~cv.readable /\ cv.value.k = "dict") =>
        /\ cv.pc = "loaded" /\ cv.err = "none" /\ cv.loaded.k = "dict"
        /\ Keys(cv.loaded.v) = Keys(cv.value.v)
        /\ \A key \in Keys(cv.value.v) :
              Lookup(cv.loaded.v, key) = StrV(Strip(StrOfScalar(Lookup(cv.value.v, key))))

BulletLine(t) == <<"-", " ">> \o t \o <<"\n">>

RECURSIVE BulletLines(_)
BulletLines(texts) ==
    IF texts = <<>> THEN <<>> ELSE BulletLine(Head(texts)) \o BulletLines(Tail(texts))

ElemText(x) == StrOfScalar(x)

EntryText(en) == en.key \o <<":", " ">> \o StrOfScalar(en.val)

(* C6: with readable = True a list or tuple is written as one line       *)
(* "- " + text(element) + newline per element in element order, and a    *)
(* mapping of any mapping type as one line "- " + key + ": " +           *)
(* text(value) + newline per entry in entry order.                       *)
C6_ReadableRendering ==
    (cv.pc \in {"stored", "loaded", "failed"} /\ cv.readable /\ cv.value.k \in ContainerKinds) =>
        /\ cv.pc # "failed"
        /\ CvCell = StrV(BulletLines(IF IsMapping(cv.value)
                                     THEN MapSeq(EntryText, cv.value.v)
                                     ELSE MapSeq(ElemText, cv.value.v)))

(* C7 as stated: a list, tuple or mapping attribute stored with          *)
(* readable = True loads as a string, never as a list, tuple or mapping. *)
C7_LoadsAsString ==
    (CvDone /\ cv.readable /\ cv.value.k \in ContainerKinds) =>
        (cv.pc = "loaded" /\ cv.err = "none" /\ cv.loaded.k = "str")

(* C7, amended: a list, tuple or mapping attribute stored with           *)
(* readable = True never loads as a list, tuple or mapping; it loads as  *)
(* a string when the container is not empty, and as the empty string or  *)
(* None when it is empty.                                                *)
C7_NeverContainer ==
    (CvDone /\ cv.readable /\ cv.value.k \in ContainerKinds) =>
        /\ cv.pc = "loaded" /\ cv.err = "none"
        /\ cv.loaded.k \notin ContainerKinds
        /\ IF cv.value.v # <<>> THEN cv.loaded.k = "str" /\ cv.loaded.v # <<>>
           ELSE cv.loaded \in {StrV(<<>>), NoneV}

C7_Witness ==
    /\ cv.pc = "loaded" /\ cv.readable
    /\ cv.value.k = "dict" /\ Len(cv.value.v) = 2
    /\ cv.loaded.k = "str" /\ cv.loaded = CvCell

(* ---- properties of the session, checked under Spec ---- *)

StoreOk == last.op = "store" /\ last.err = "none"

(* C1: after store(x1, ..., xn) on an open session bound to a type, row 1 *)
(* holds the attribute names in order and row i+1 the encoded attribute    *)
(* values of xi in that order (arguments flattened in argument order);     *)
(* the call writes no other row.                                           *)
C1_StoreRows ==
    StoreOk =>
        LET n == Len(last.items)
            w == Len(sess.attrs)
        IN /\ last.stored = last.items
           /\ last.written = {<<LibColumnLetters(j), r>> : j \in 1..w, r \in 1..(n + 1)}
           /\ \A j \in 1..w : CellAt(sess.ws, 1, j) = StrV(sess.attrs[j])
           /\ \A i \in 1..n, j \in 1..w :
                 CellAt(sess.ws, i + 1, j) =
                    EncodeValue(last.items[i].d[sess.attrs[j]], last.readable).cell

C1_Witness ==
    /\ StoreOk
    /\ Len(last.items) = 2 /\ last.items[1] # last.items[2]
    /\ CellAt(sess.ws, 3, 1) = last.items[2].d[TName]

(* The position of the first of xs that is not an instance of cls, 0 if *)
(* all are                                                              *)
FirstBad(xs, cls) ==
    LET bad == {i \in 1..Len(xs) : ~IsInstance(xs[i], cls)}
    IN IF bad = {} THEN 0 ELSE CHOOSE k \in bad : \A h \in bad : k <= h

(* C8: store raises ValueError at the first argument or iterable element, *)
(* in flattened order, that is not an instance of the bound type: before  *)
(* any attribute of it is read, with no row written for it or for any     *)
(* instance after it (and the rows of the instances before it written).   *)
C8_TypeMismatch ==
    (last.op = "store" /\ sess.cls # "none") =>
        LET k == FirstBad(last.items, sess.cls)
        IN IF k = 0 THEN last.err # "ValueError"
           ELSE /\ last.err = "ValueError"
                /\ last.stored = SubSeq(last.items, 1, k - 1)
                /\ last.nread = k - 1
                /\ {label[2] : label \in last.written} = 1..k

C8_Witness ==
    /\ last.op = "store" /\ last.err = "ValueError"
    /\ Len(last.items) = 3
    /\ FirstBad(last.items, sess.cls) = 2
    /\ IsInstance(last.items[3], sess.cls)
    /\ last.stored = <<last.items[1]>>

(* C9: when the body of the scoped session ends with an error, exit does *)
(* not save the workbook to the target file and does not suppress the    *)
(* error: the same error reaches the caller of the scope.                *)
C9_ExitWithError ==
    [][(sess.status = "open" /\ sess.exc # "none" /\ sess'.status = "closed")
          => (file' = file /\ raised' = sess.exc)]_vars

C9_Witness ==
    /\ last.op = "exit" /\ last.err = "ValueError"
    /\ sess.status = "closed" /\ raised = "ValueError"
    /\ ~file.exists

(* The values load gives for a stored instance: each attribute encoded   *)
(* and decoded, an empty-string cell possibly read back as None          *)
DecodedAttr(x, attr, readable) == DecodeCell(EncodeValue(x.d[attr], readable).cell).val

IsRecordOf(rec, x, attrs, readable) ==
    /\ Len(rec) = Len(attrs)
    /\ \A j \in 1..Len(attrs) :
          rec[j] \in {DecodedAttr(x, attrs[j], readable),
                      EmptyToNone(DecodedAttr(x, attrs[j], readable))}

(* C10: if one session stores n instances and exits cleanly, load in a   *)
(* later session on the same file returns exactly n records, in the      *)
(* order stored, the k-th holding the decoded values of the k-th stored  *)
(* instance.                                                             *)
C10_StoreThenLoad ==
    (last.op = "load" /\ prov.file.kind = "one" /\ sess.cls \in {"none", prov.file.cls}) =>
        /\ last.err = "none"
        /\ Len(last.recs) = Len(prov.file.items)
        /\ \A k \in 1..Len(prov.file.items) :
              IsRecordOf(last.recs[k], prov.file.items[k],
                         ClassAttributes(prov.file.cls), prov.file.readable)

(* ---- more properties of the codec, checked under CodecSpec ---- *)

(* C16: encoding an attribute value never raises, whatever the type of  *)
(* the value and whether readable or not: a value that is neither a     *)
(* native scalar nor a list, tuple or mapping (None, a boolean) is      *)
(* written as its generic text.                                         *)
C16_EncodingNeverRaises ==
    (cv.pc \in {"stored", "loaded", "failed"}) =>
        /\ cv.pc # "failed" /\ (cv.pc = "stored" => cv.err = "none")
        /\ cv.value.k \in {"none", "bool"} => CvCell = StrV(PyStr(cv.value))

(* C17: decoding a string cell never raises: a cell that starts with    *)
(* "[", "(" or "{" and is no well-formed token ("{}", a "{" cell with a *)
(* segment without ":" or with more than one) yields a value.           *)
C17_DecodingNeverRaises ==
    (cv.pc = "loaded" /\ CvCell.k = "str") => (cv.err = "none" /\ cv.loaded.k # "none")

(* ---- more properties of the session, checked under Spec ---- *)

LoadOk == last.op = "load" /\ last.err = "none"

(* The text of the heading cells of a worksheet, in column order *)
HeadingNames(ws) == [j \in 1..MaxColumn(ws) |-> CellAt(ws, 1, j).v]

(* The decoded values of row r of a worksheet, in column order *)
DecodedRow(ws, r) == [j \in 1..MaxColumn(ws) |-> DecodeCell(CellAt(ws, r, j)).val]

(* C11: load(name) on a session with no bound type returns a record      *)
(* constructor named name whose fields are the heading row's names in    *)
(* column order, and one record for every row after the heading; the     *)
(* heading row is not among the records.                                 *)
C11_LoadUnbound ==
    (LoadOk /\ sess.cls = "none") =>
        /\ last.ctor = [kind |-> "namedtuple", name |-> last.name,
                        fields |-> HeadingNames(sess.ws)]
        /\ Len(last.recs) = MaxRow(sess.ws) - 1
        /\ \A k \in 1..Len(last.recs) : last.recs[k] = DecodedRow(sess.ws, k + 1)
        /\ prov.file.kind = "one" =>
              /\ last.ctor.fields = ClassAttributes(prov.file.cls)
              /\ Len(last.recs) = Len(prov.file.items)

C11_Witness ==
    /\ LoadOk /\ sess.cls = "none"
    /\ prov.file.kind = "one" /\ Len(prov.file.items) = 2
    /\ last.ctor.name = <<"z", "o", "o">>
    /\ last.ctor.fields = <<TName, TStatus>>
    /\ Len(last.recs) = 2 /\ last.recs[1][1] # last.recs[2][1]

(* C12: load on a session with a bound type returns that type as the     *)
(* constructor and, for every row after the heading, an instance built   *)
(* from the row's decoded values passed positionally in column order;    *)
(* the heading row is skipped.                                           *)
C12_LoadBound ==
    (LoadOk /\ sess.cls # "none") =>
        /\ last.ctor = [kind |-> "class", name |-> sess.cls, fields |-> <<>>]
        /\ Len(last.recs) = MaxRow(sess.ws) - 1
        /\ \A k \in 1..Len(last.recs) :
              /\ Len(last.recs[k]) = ClassNParams(sess.cls)
              /\ last.recs[k] = DecodedRow(sess.ws, k + 1)
        /\ prov.file.kind = "one" => Len(last.recs) = Len(prov.file.items)

C12_Witness ==
    /\ LoadOk /\ sess.cls = "Animal"
    /\ prov.file.kind = "one" /\ prov.file.items = <<Gecko>> /\ ~prov.file.readable
    /\ last.recs = <<(<<StrV(<<"G">>), [k |-> "list", v |-> <<StrV(<<"a">>), StrV(<<"b">>)>>]>>)>>

(* C18: the lifecycle is Unopened -> Open -> Closed with no transition  *)
(* out of Closed: once a session has left its scope, no operation on it *)
(* brings it back to Open or changes the target file.                   *)
C18_ClosedIsFinal ==
    [][(sess.status = "closed" /\ last'.op # "construct")
          => (sess'.status = "closed" /\ file' = file)]_vars

(* C19: on clean exit a locked target file is never propagated to the   *)
(* caller as an error: the session prompts and retries however many     *)
(* times the save finds the file locked.                                *)
C19_LockNeverPropagates == raised # "PermissionError"

(* C20: the target file changes only in the clean-exit step of a        *)
(* session: store, load, entering the scope and an exit with an error   *)
(* never write it.                                                      *)
C20_FileWrittenOnlyAtCleanExit ==
    [][file' # file
          => (sess.status = "open" /\ sess.exc = "none" /\ sess'.status = "closed")]_vars

C20_Witness ==
    /\ last.op = "exit" /\ last.err = "none" /\ raised = "none"
    /\ file.exists /\ file.ws = sess.ws /\ MaxRow(file.ws) = 3

(* C22: after load on a session opened with no bound type, the         *)
(* session's class_attributes holds the heading row's attribute names   *)
(* in column order. (A session with no bound type has no                *)
(* class_attributes; the model holds the empty sequence for it.)        *)
C22_AttributesAfterLoad ==
    (LoadOk /\ sess.cls = "none") => sess.attrs = HeadingNames(sess.ws)

(* The heading of attrs and then the rows of the instances xs, encoded, *)
(* are rows 1..Len(xs)+1 of the worksheet                               *)
HoldsRows(ws, attrs, xs, readable) ==
    /\ \A j \in 1..Len(attrs) : CellAt(ws, 1, j) = StrV(attrs[j])
    /\ \A i \in 1..Len(xs), j \in 1..Len(attrs) :
          CellAt(ws, i + 1, j) = EncodeValue(xs[i].d[attrs[j]], readable).cell

(* C23: store is not transactional: when store(x1, ..., xn) raises the  *)
(* type-mismatch error at xk, the heading row and the rows of           *)
(* x1..x(k-1) written by that call stay in the session's worksheet, and *)
(* if the caller handles the error inside the scope they are saved to   *)
(* the file at clean exit.                                              *)
C23_StoreNotTransactional ==
    [][/\ (last'.op = "store" /\ last'.err = "ValueError") =>
             /\ last'.stored = SubSeq(last'.items, 1, FirstBad(last'.items, sess.cls) - 1)
             /\ HoldsRows(sess'.ws, sess.attrs, last'.stored, last'.readable)
       /\ (prov.ws.kind = "partial" /\ last'.op = "handle") => sess'.ws = sess.ws
       /\ (prov.ws.kind = "partial" /\ sess.status = "open" /\ sess.exc = "none"
              /\ sess'.status = "closed") =>
             /\ file'.exists
             /\ HoldsRows(file'.ws, sess.attrs, prov.ws.items, prov.ws.readable)]_vars

(* C26: every store call starts again at row 1: it writes the heading  *)
(* and its instances from row 2 on over what the worksheet holds        *)
(* instead of appending, and leaves every row after its last one as it  *)
(* was; after store of m instances and then store of n < m instances,   *)
(* rows 2..n+1 hold the second call's instances and rows n+2..m+1 the   *)
(* first call's last m-n instances.                                     *)
C26_StoreRestartsAtRowOne ==
    [][(last'.op = "store" /\ sess.cls # "none") =>
          /\ last'.err = "none" => last'.stored = last'.items
          /\ HoldsRows(sess'.ws, sess.attrs, last'.stored, last'.readable)
          /\ \A l \in DOMAIN sess.ws :
                l[2] > Len(last'.stored) + 1 => (l \in DOMAIN sess'.ws /\ sess'.ws[l] = sess.ws[l])
          /\ \A l \in DOMAIN sess'.ws :
                l[2] > Len(last'.stored) + 1 => l \in DOMAIN sess.ws]_vars

C26_Witness ==
    /\ StoreOk /\ ~file.exists /\ prov.ws.kind = "other"
    /\ last.items = <<Eagle>> /\ MaxRow(sess.ws) = 3
    /\ CellAt(sess.ws, 2, 1) = StrV(<<"E">>)
    /\ CellAt(sess.ws, 3, 1) = StrV(<<"G">>)

(* C27: a clean exit always saves the session's current workbook to    *)
(* the target file, whatever was called in the scope: entering gives an *)
(* empty workbook (so a scope without store and load replaces the       *)
(* file's rows by an empty sheet) and load replaces the workbook by the *)
(* one read from the file (so rows stored before it in the scope never  *)
(* reach the file).                                                     *)
C27_CleanExitSavesCurrentWorkbook ==
    [][/\ last'.op = "enter" => sess'.ws = EmptySheet
       /\ (last'.op = "load" /\ file.exists) => sess'.ws \in ReloadedSheets(file.ws)
       /\ (sess.status = "open" /\ sess.exc = "none" /\ sess'.status = "closed")
             => file' = [exists |-> TRUE, ws |-> sess.ws]]_vars

(* ---- properties of the argument scenario, checked under ArgSpec ---- *)

(* The arguments of a call with every argument that is iterable and no  *)
(* instance of cls replaced by its elements                             *)
RECURSIVE ExpandedArgs(_, _)
ExpandedArgs(args, cls) ==
    IF args = <<>> THEN <<>>
    ELSE (IF IsIterable(Head(args)) /\ ~IsInstance(Head(args), cls)
          THEN Head(args).items ELSE <<Head(args)>>)
         \o ExpandedArgs(Tail(args), cls)

(* C24: store expands an argument element-wise only if it is iterable   *)
(* and is no instance of the bound type: an argument that is an         *)
(* instance of the bound type is written as exactly one row, also when  *)
(* the bound type is itself iterable, and every element of an expanded  *)
(* argument is type-checked individually.                               *)
C24_ExpandsOnlyOtherIterables ==
    (sh.kind = "call" /\ sh.pc = "called" /\ last.err \in {"none", "ValueError"}) =>
        LET xs == ExpandedArgs(sh.args, sess.cls)
            k == FirstBad(xs, sess.cls)
        IN /\ last.err = "ValueError" <=> k > 0
           /\ last.stored = SubSeq(xs, 1, IF k = 0 THEN Len(xs) ELSE k - 1)
           /\ MaxRow(sess.ws) = 1 + Len(last.stored)

(* The columns of the cells of row r of a worksheet *)
RowColumns(ws, r) == {ColumnIndex(l[1]) : l \in {c \in DOMAIN ws : c[2] = r}}

(* C25: on an open session bound to a type every data row written by    *)
(* store has exactly len(class_attributes) cells, in the first          *)
(* len(class_attributes) columns of its row; an instance that lacks one *)
(* of the attributes makes store fail before any cell of its row is     *)
(* written.                                                             *)
C25_RowWidth ==
    (sh.kind = "call" /\ sh.pc = "called") =>
        /\ \A r \in 2..MaxRow(sess.ws) : RowColumns(sess.ws, r) = 1..Len(sess.attrs)
        /\ last.err = "KeyError" => MaxRow(sess.ws) = 1 + Len(last.stored)

(* ---- properties of the shape scenario, checked under ShapeSpec ---- *)

ShapeDerived == sh.kind = "type" /\ sh.pc \in {"bound", "rejected", "twice"}

(* C13: the attribute names derived for a bound type are exactly its    *)
(* declared constructor parameters, in declaration order, without self  *)
(* and without any other name (such as a local variable of the          *)
(* constructor's body); a repeated derivation gives the same sequence.  *)
C13_DeclaredParamsOnly ==
    ShapeDerived =>
        /\ sh.attrs = DeclaredParams(sh.nparams)
        /\ sh.pc = "twice" => sh.again = sh.attrs

(* C14: binding a type whose derived attribute count is greater than 51 *)
(* fails with ValueError and creates no session; a type with 51 or      *)
(* fewer derived attributes is accepted.                                *)
C14_AttributeCeiling ==
    ShapeDerived =>
        /\ Len(sh.attrs) = sh.nparams + sh.nlocals
        /\ IF Len(sh.attrs) > 51
           THEN sh.pc = "rejected" /\ sh.err = "ValueError" /\ ~sh.session
           ELSE sh.pc \in {"bound", "twice"} /\ sh.err = "none" /\ sh.session

C14_Witness ==
    /\ sh.kind = "type" /\ sh.pc = "rejected"
    /\ sh.nlocals = 0 /\ sh.nparams = 52 /\ sh.err = "ValueError"

(* The letters of the column at 0-based position i, as character codes: *)
(* "A" is 65                                                            *)
ColumnLetters(i) == IF i <= 25 THEN <<65 + i>> ELSE <<65, 65 + (i - 26)>>

(* C15: the column label of the value at 0-based position i of a row is *)
(* the letter "A"+i for 0 <= i <= 25 and "A" followed by the letter     *)
(* "A"+(i-26) for 26 <= i <= 51; the labels of positions 0..51 are      *)
(* pairwise distinct (each value of the row is found under its label).  *)
C15_ColumnLabels ==
    (sh.kind = "row" /\ sh.pc = "written") =>
        /\ sh.err = "none"
        /\ \A i \in 0..(Len(sh.data) - 1) :
              i <= 51 =>
                 /\ <<ColumnLetters(i), sh.row>> \in DOMAIN sh.ws
                 /\ sh.ws[<<ColumnLetters(i), sh.row>>] = sh.data[i + 1]
        /\ Len(sh.data) <= 52 => Cardinality(DOMAIN sh.ws) = Len(sh.data)

C15_Witness ==
    /\ sh.kind = "row" /\ sh.pc = "written" /\ Len(sh.data) = 52
    /\ sh.ws[<<(<<90>>), sh.row>>] = IntV(26)
    /\ sh.ws[<<(<<65, 65>>), sh.row>>] = IntV(27)
    /\ sh.ws[<<(<<65, 90>>), sh.row>>] = IntV(52)

(* C21: the backing variant of a session is selected by the extension   *)
(* of its file path alone: a session on a path ending in .csv is the    *)
(* delimited-text variant, one on a path ending in .xlsx the            *)
(* spreadsheet variant, whatever the bound type.                        *)
C21_VariantByExtension ==
    (sh.kind = "path" /\ sh.pc = "entered") =>
        /\ EndsWith(sh.file_name, <<".", "c", "s", "v">>) => sh.variant = "delimited-text"
        /\ EndsWith(sh.file_name, <<".", "x", "l", "s", "x">>) => sh.variant = "workbook"

====
